---- MODULE Spec2Model ----
(***************************************************************************)
(* DNS lookup orchestrator (services/orchestrator).                        *)
(*                                                                         *)
(* The model covers the fan-out/fan-in core:                               *)
(*   - RedisService.publish_dns_task  (XADD on the task stream),           *)
(*   - RedisService.wait_for_results  (consumer group per trace_id on the  *)
(*     result stream, bounded polling loop, group teardown),               *)
(*   - the route orchestrate_dns_lookup and aggregate_results.             *)
(*                                                                         *)
(* Redis is modelled by the commands the code issues: XADD, XGROUP CREATE, *)
(* XREADGROUP ... ">", XACK and XGROUP DESTROY.  Time is a global clock in *)
(* seconds; only the blocking read lets time pass.                         *)
(*                                                                         *)
(* Spec      one call of wait_for_results against the workers              *)
(* FairSpec  Spec with the progress the event loop and the clock guarantee *)
(* SpecPair  two calls of wait_for_results in flight at once               *)
(* SpecRoute the route orchestrate_dns_lookup against the two streams      *)
(* SpecAgg   the aggregation and status step on a collected result list    *)
(***************************************************************************)
EXTENDS Integers, Sequences, FiniteSets, TLC

\* ------------------------------------------------------------------ bounds

\* Longest result stream the workers build.
MaxStream == 3
\* Longest result stream while two calls of wait_for_results run at once.
MaxPairStream == 2
\* Largest timeout_seconds a caller of wait_for_results passes.
MaxTimeout == 2
\* Largest expected_count a caller of wait_for_results passes.
MaxExpected == 2
\* Longest list of collected results handed to the aggregation step.
MaxResults == 3
\* Largest tasks_published handed to the aggregation step.
MaxPublished == 3

\* ------------------------------------------------------- program constants

\* xreadgroup(..., block=1000): the blocking read waits at most one second.
BLOCK_SECONDS == 1
\* xreadgroup(..., count=10)
READ_COUNT == 10
\* HTTPException(status_code=500, ...)
HTTP_ERROR == 500

\* --------------------------------------------------------------- universes

\* Values of request_id / trace_id.
TraceIds == {"r1", "r2"}
\* Values of a location.
Locations == {"A", "B"}
\* Concurrent invocations of wait_for_results.
Collectors == {"c1", "c2"}
\* Concurrent invocations of the route.
Routes == {"q1"}
\* Longest list of locations a request names.
MaxLocations == 2
\* The clock stops here; every collection started fits before it.
MaxTime == MaxTimeout + BLOCK_SECONDS + 1

\* A result the worker wrote that json.loads parses into a dict.  The
\* collection reads its trace_id only; location and status pass through.
WellFormed == [ok : {TRUE}, trace_id : TraceIds, location : {"A"},
               status : {"success"}]
\* An entry whose "data" field does not parse.
Malformed == [ok |-> FALSE, trace_id |-> "", location |-> "", status |-> ""]
\* What a worker may append to dns:results.
ResultEntries == WellFormed \cup {Malformed}

VARIABLES
    now,             \* wall clock, in seconds
    tasks_stream,    \* dns:tasks, the entries in log order
    results_stream,  \* dns:results, the entries in log order (id = position)
    groups,          \* consumer groups of dns:results, by name
    wfr,             \* one frame per invocation of wait_for_results
    route,           \* one frame per invocation of orchestrate_dns_lookup
    agg              \* the aggregation step applied to a given result list

vars == <<now, tasks_stream, results_stream, groups, wfr, route, agg>>

\* ------------------------------------------------------------ Redis commands

Min(a, b) == IF a < b THEN a ELSE b

\* One group name for every call, whatever its trace_id.
consumer_group_Shared(trace_id) == <<"orchestrator", "r1">>

\* consumer_group = f"orchestrator-{trace_id}"
consumer_group(trace_id) == <<"orchestrator", trace_id>>

GroupNames == {consumer_group(t) : t \in TraceIds}

\* A name no group is registered under.
NoGroup == [exists |-> FALSE, last_delivered |-> 0, pel |-> {}]

\* XGROUP CREATE dns:results g $ MKSTREAM: the cursor starts at the stream's end.
XGroupCreate(gs, g, stream) ==
    [gs EXCEPT ![g] = [exists |-> TRUE, last_delivered |-> Len(stream), pel |-> {}]]

\* The ids XREADGROUP ... COUNT 10 ... ">" hands out: the entries after the
\* group's last delivered id, oldest first, at most READ_COUNT of them.
NewMessages(gs, g, stream) ==
    LET lo == gs[g].last_delivered + 1
        hi == Min(Len(stream), gs[g].last_delivered + READ_COUNT)
    IN  [i \in 1..(hi - lo + 1) |-> lo + i - 1]

\* The effect of a read that hands out `ids`: they become pending and the
\* cursor moves behind them.
XReadGroup(gs, g, ids) ==
    IF Len(ids) = 0 THEN gs
    ELSE [gs EXCEPT ![g].last_delivered = ids[Len(ids)],
                    ![g].pel = @ \cup {ids[i] : i \in 1..Len(ids)}]

\* XACK dns:results g id (a no-op on a group that is gone).
XAck(gs, g, id) ==
    IF gs[g].exists THEN [gs EXCEPT ![g].pel = @ \ {id}] ELSE gs

\* XGROUP DESTROY dns:results g
XGroupDestroy(gs, g) == [gs EXCEPT ![g] = NoGroup]

\* ------------------------------------------- RedisService.wait_for_results

\* A frame of wait_for_results that has not been called.
IdleFrame ==
    [pc |-> "idle", trace_id |-> "", expected_count |-> 0, timeout_seconds |-> 0,
     results |-> <<>>, start_time |-> 0, read_at |-> 0, messages |-> <<>>,
     \* bookkeeping of what the call did, read by the properties only
     result_ids |-> <<>>, delivered |-> <<>>, ack_failed |-> {},
     opened |-> FALSE, destroy_calls |-> 0, exit |-> "",
     \* how long dns:results was when the call was entered and when its
     \* xgroup_create returned
     called_at |-> 0, opened_at |-> 0]

\* The positions at which the coroutine is suspended in an await.
AwaitPoints == {"create", "read", "ack", "destroy"}
\* The call is over: it returned a list, or CancelledError left it.
Ended == {"returned", "cancelled"}

\* ------------------------------------------------------------------- clock

\* A blocked XREADGROUP with nothing to hand out and its block time not over.
Blocked(c) ==
    /\ wfr[c].pc = "read"
    /\ groups[consumer_group(wfr[c].trace_id)].exists
    /\ Len(NewMessages(groups, consumer_group(wfr[c].trace_id), results_stream)) = 0
    /\ now < wfr[c].read_at + BLOCK_SECONDS

\* A second passes.  Every other step of a call takes no time, so time passes
\* only while every running call sits in its blocking read; the clock is not
\* advanced while no call is waiting.
Tick ==
    /\ now < MaxTime
    /\ \E c \in Collectors : Blocked(c)
    /\ \A c \in Collectors : wfr[c].pc \in ({"idle"} \cup Ended) \/ Blocked(c)
    /\ now' = now + 1
    /\ UNCHANGED <<tasks_stream, results_stream, groups, wfr, route, agg>>

\* A worker appends one result entry to dns:results (the stream grows to
\* `limit` entries at most).
WorkerAppend(e, limit) ==
    /\ Len(results_stream) < limit
    /\ results_stream' = Append(results_stream, e)
    /\ UNCHANGED <<now, tasks_stream, groups, wfr, route, agg>>

\* ------------------------------------------------- wait_for_results, steps

\* The frame of an invocation that ends, with how it ended.
EndFrame(f, how) ==
    [f EXCEPT !.pc = IF how = "cancel" THEN "cancelled" ELSE "returned",
              !.exit = how, !.start_time = 0, !.read_at = 0,
              !.timeout_seconds = 0, !.called_at = 0, !.opened_at = 0]

\* After the last statement of the for-body: the next message of the batch,
\* or back to the while condition.
NextMessage(f) ==
    LET rest == Tail(f.messages)
    IN  [f EXCEPT !.messages = rest,
                  !.pc = IF Len(rest) = 0 THEN "loop" ELSE "proc"]

\* redis_service.wait_for_results(trace_id, expected_count, timeout_seconds)
\* is entered: results = [], the names are derived, the try block begins.
Call(c, trace_id, expected_count, timeout_seconds) ==
    /\ wfr[c].pc = "idle"
    /\ now + timeout_seconds + BLOCK_SECONDS <= MaxTime
    /\ wfr' = [wfr EXCEPT ![c] =
                 [IdleFrame EXCEPT !.pc = "create", !.trace_id = trace_id,
                                   !.expected_count = expected_count,
                                   !.timeout_seconds = timeout_seconds,
                                   !.called_at = Len(results_stream)]]
    /\ UNCHANGED <<now, tasks_stream, results_stream, groups, route, agg>>

\* CreateGroup without the BUSYGROUP test: every ResponseError of the create
\* call, the one for an existing group included, is raised.
CreateGroup_RaiseBusy(c) ==
    LET f == wfr[c]
        g == consumer_group(f.trace_id)
    IN  /\ f.pc = "create"
        /\ \/ /\ ~groups[g].exists
              /\ groups' = XGroupCreate(groups, g, results_stream)
              /\ wfr' = [wfr EXCEPT ![c] =
                           [f EXCEPT !.pc = "loop", !.opened = TRUE,
                                     !.start_time = now,
                                     !.opened_at = Len(results_stream)]]
           \/ /\ wfr' = [wfr EXCEPT ![c] = EndFrame(f, "except")]
              /\ UNCHANGED groups
        /\ UNCHANGED <<now, tasks_stream, results_stream, route, agg>>

\* await xgroup_create(dns:results, consumer_group, id='$', mkstream=True)
\* BUSYGROUP (the group exists) is ignored; any other error leaves through
\* the outer except, which returns the (empty) results.
CreateGroup(c) ==
    LET f == wfr[c]
        g == consumer_group(f.trace_id)
    IN  /\ f.pc = "create"
        /\ \/ /\ groups' = IF groups[g].exists THEN groups
                           ELSE XGroupCreate(groups, g, results_stream)
              /\ wfr' = [wfr EXCEPT ![c] =
                           [f EXCEPT !.pc = "loop", !.opened = TRUE,
                                     !.start_time = now,
                                     !.opened_at = Len(results_stream)]]
           \/ /\ wfr' = [wfr EXCEPT ![c] = EndFrame(f, "except")]
              /\ UNCHANGED groups
        /\ UNCHANGED <<now, tasks_stream, results_stream, route, agg>>

\* The timeout check taken one poll too late.
TimedOut_Late(elapsed, timeout_seconds) == elapsed > timeout_seconds + BLOCK_SECONDS

\* if elapsed > timeout_seconds: break
TimedOut(elapsed, timeout_seconds) == elapsed > timeout_seconds

\* while len(results) < expected_count: check the timeout, then issue the
\* blocking read; leaving the loop leads to the cleanup.
LoopCheck(c) ==
    LET f == wfr[c]
        elapsed == now - f.start_time
    IN  /\ f.pc = "loop"
        /\ wfr' = [wfr EXCEPT ![c] =
                     IF /\ Len(f.results) < f.expected_count
                        /\ ~TimedOut(elapsed, f.timeout_seconds)
                     THEN [f EXCEPT !.pc = "read", !.read_at = now]
                     ELSE [f EXCEPT !.pc = "destroy",
                                    !.destroy_calls = @ + 1]]
        /\ UNCHANGED <<now, tasks_stream, results_stream, groups, route, agg>>

\* await xreadgroup(group, consumer, {dns:results: ">"}, count=10, block=1000)
\* returns new entries at once when there are any, nothing after the block
\* time, and raises when the group is gone or the server cannot be reached.
ReadGroup(c) ==
    LET f == wfr[c]
        g == consumer_group(f.trace_id)
        ids == NewMessages(groups, g, results_stream)
    IN  /\ f.pc = "read"
        /\ \/ /\ groups[g].exists
              /\ Len(ids) > 0
              /\ groups' = XReadGroup(groups, g, ids)
              /\ wfr' = [wfr EXCEPT ![c] =
                           [f EXCEPT !.pc = "proc", !.messages = ids,
                                     !.read_at = 0,
                                     !.delivered = @ \o ids]]
           \/ /\ groups[g].exists
              /\ Len(ids) = 0
              /\ now >= f.read_at + BLOCK_SECONDS
              /\ wfr' = [wfr EXCEPT ![c] =
                           [f EXCEPT !.pc = "loop", !.read_at = 0]]
              /\ UNCHANGED groups
           \/ /\ wfr' = [wfr EXCEPT ![c] = EndFrame(f, "except")]
              /\ UNCHANGED groups
        /\ UNCHANGED <<now, tasks_stream, results_stream, route, agg>>

\* ProcessMessage with the xack moved inside "if trace_id matches": a result
\* of another trace is skipped without being acknowledged.
ProcessMessage_AckOnMatch(c) ==
    LET f == wfr[c]
        id == Head(f.messages)
        result == results_stream[id]
    IN  /\ f.pc = "proc"
        /\ wfr' = [wfr EXCEPT ![c] =
                     IF ~result.ok THEN NextMessage(f)
                     ELSE IF result.trace_id = f.trace_id
                     THEN [f EXCEPT !.pc = "ack",
                                    !.results = Append(@, result),
                                    !.result_ids = Append(@, id)]
                     ELSE NextMessage(f)]
        /\ UNCHANGED <<now, tasks_stream, results_stream, groups, route, agg>>

\* ProcessMessage without the inner try/except: a parse error goes to the
\* outer except clause and ends the call.
ProcessMessage_ParseFatal(c) ==
    LET f == wfr[c]
        id == Head(f.messages)
        result == results_stream[id]
    IN  /\ f.pc = "proc"
        /\ wfr' = [wfr EXCEPT ![c] =
                     IF ~result.ok THEN EndFrame(f, "except")
                     ELSE IF result.trace_id = f.trace_id
                     THEN [f EXCEPT !.pc = "ack",
                                    !.results = Append(@, result),
                                    !.result_ids = Append(@, id)]
                     ELSE [f EXCEPT !.pc = "ack"]]
        /\ UNCHANGED <<now, tasks_stream, results_stream, groups, route, agg>>

\* ProcessMessage keeping one result per location: a result whose location
\* is already among the results is acknowledged and dropped.
ProcessMessage_Dedup(c) ==
    LET f == wfr[c]
        id == Head(f.messages)
        result == results_stream[id]
        seen == \E k \in 1..Len(f.results) :
                    f.results[k].location = result.location
    IN  /\ f.pc = "proc"
        /\ wfr' = [wfr EXCEPT ![c] =
                     IF ~result.ok THEN NextMessage(f)
                     ELSE IF result.trace_id = f.trace_id /\ ~seen
                     THEN [f EXCEPT !.pc = "ack",
                                    !.results = Append(@, result),
                                    !.result_ids = Append(@, id)]
                     ELSE [f EXCEPT !.pc = "ack"]]
        /\ UNCHANGED <<now, tasks_stream, results_stream, groups, route, agg>>

\* The for-body up to the xack: json.loads of the entry's data; a parse error
\* is caught by the inner except and the entry is skipped; a parsed result is
\* appended when its trace_id is the call's.
ProcessMessage(c) ==
    LET f == wfr[c]
        id == Head(f.messages)
        result == results_stream[id]
    IN  /\ f.pc = "proc"
        /\ wfr' = [wfr EXCEPT ![c] =
                     IF ~result.ok THEN NextMessage(f)
                     ELSE IF result.trace_id = f.trace_id
                     THEN [f EXCEPT !.pc = "ack",
                                    !.results = Append(@, result),
                                    !.result_ids = Append(@, id)]
                     ELSE [f EXCEPT !.pc = "ack"]]
        /\ UNCHANGED <<now, tasks_stream, results_stream, groups, route, agg>>

\* await xack(dns:results, consumer_group, message_id); an error of the call
\* is caught by the inner except and only logged.
AckMessage(c) ==
    LET f == wfr[c]
        g == consumer_group(f.trace_id)
        id == Head(f.messages)
    IN  /\ f.pc = "ack"
        /\ \/ /\ groups' = XAck(groups, g, id)
              /\ wfr' = [wfr EXCEPT ![c] = NextMessage(f)]
           \/ /\ wfr' = [wfr EXCEPT ![c] =
                           [NextMessage(f) EXCEPT !.ack_failed = @ \cup {id}]]
              /\ UNCHANGED groups
        /\ UNCHANGED <<now, tasks_stream, results_stream, route, agg>>

\* DestroyGroup without its own try/except: an error of xgroup_destroy goes
\* to the outer except clause.
DestroyGroup_Unguarded(c) ==
    LET f == wfr[c]
        g == consumer_group(f.trace_id)
    IN  /\ f.pc = "destroy"
        /\ \/ /\ groups' = XGroupDestroy(groups, g)
              /\ wfr' = [wfr EXCEPT ![c] = EndFrame(f, "return")]
           \/ /\ UNCHANGED groups
              /\ wfr' = [wfr EXCEPT ![c] = EndFrame(f, "except")]
        /\ UNCHANGED <<now, tasks_stream, results_stream, route, agg>>

\* await xgroup_destroy(dns:results, consumer_group); errors are swallowed;
\* then return results.
DestroyGroup(c) ==
    LET f == wfr[c]
        g == consumer_group(f.trace_id)
    IN  /\ f.pc = "destroy"
        /\ \/ groups' = XGroupDestroy(groups, g)
           \/ UNCHANGED groups
        /\ wfr' = [wfr EXCEPT ![c] = EndFrame(f, "return")]
        /\ UNCHANGED <<now, tasks_stream, results_stream, route, agg>>

\* The task running the call is cancelled while it is suspended in an await:
\* CancelledError is no Exception, so no except clause of the function
\* catches it.  The command in flight has reached the server or has not.
Cancel(c) ==
    LET f == wfr[c]
        g == consumer_group(f.trace_id)
        done == CASE f.pc = "create" ->
                       IF groups[g].exists THEN groups
                       ELSE XGroupCreate(groups, g, results_stream)
                  [] f.pc = "read" ->
                       IF groups[g].exists
                       THEN XReadGroup(groups, g,
                                       NewMessages(groups, g, results_stream))
                       ELSE groups
                  [] f.pc = "ack" -> XAck(groups, g, Head(f.messages))
                  [] f.pc = "destroy" -> XGroupDestroy(groups, g)
                  [] OTHER -> groups
    IN  /\ f.pc \in AwaitPoints
        /\ \E applied \in BOOLEAN :
              /\ groups' = IF applied THEN done ELSE groups
              /\ wfr' = [wfr EXCEPT ![c] = EndFrame(f, "cancel")]
        /\ UNCHANGED <<now, tasks_stream, results_stream, route, agg>>

\* ----------------------------------------------------- aggregate_results

\* dict.get(key, default)
Get(d, key, default) == IF key \in DOMAIN d THEN d[key] ELSE default

\* by_location with the loop stopping one result short.
RECURSIVE by_location_SkipLast(_)
by_location_SkipLast(results) ==
    IF Len(results) <= 1 THEN <<>>
    ELSE LET before == by_location_SkipLast(SubSeq(results, 1, Len(results) - 1))
             result == results[Len(results) - 1]
             location == Get(result, "location", "unknown")
             entry == [status |-> Get(result, "status", "unknown"),
                       error |-> Get(result, "error", "None")]
         IN  [k \in DOMAIN before \cup {location} |->
                 IF k = location THEN entry ELSE before[k]]

\* aggregated["by_location"] after the loop over results: one entry per
\* location, a later result replacing an earlier one of the same location.
\* (The records and processing_time_ms fields are copied the same way as
\* status and error and are left out.)
RECURSIVE by_location(_)
by_location(results) ==
    IF Len(results) = 0 THEN <<>>
    ELSE LET before == by_location(SubSeq(results, 1, Len(results) - 1))
             result == results[Len(results)]
             location == Get(result, "location", "unknown")
             entry == [status |-> Get(result, "status", "unknown"),
                       error |-> Get(result, "error", "None")]
         IN  [k \in DOMAIN before \cup {location} |->
                 IF k = location THEN entry ELSE before[k]]

\* summary with a result counted as failed only when its error is populated.
RECURSIVE summary_FailedByError(_)
summary_FailedByError(results) ==
    IF Len(results) = 0
    THEN [total_locations |-> 0, successful |-> 0, failed |-> 0]
    ELSE LET before == summary_FailedByError(SubSeq(results, 1, Len(results) - 1))
             error == Get(results[Len(results)], "error", "None")
         IN  IF error = "None"
             THEN [before EXCEPT !.total_locations = Len(results),
                                 !.successful = @ + 1]
             ELSE [before EXCEPT !.total_locations = Len(results),
                                 !.failed = @ + 1]

\* aggregated["summary"] after the loop over results: total_locations is
\* len(results); a result whose status is "success" adds one to successful,
\* any other adds one to failed.
RECURSIVE summary(_)
summary(results) ==
    IF Len(results) = 0
    THEN [total_locations |-> 0, successful |-> 0, failed |-> 0]
    ELSE LET before == summary(SubSeq(results, 1, Len(results) - 1))
             status == Get(results[Len(results)], "status", "unknown")
         IN  IF status = "success"
             THEN [before EXCEPT !.total_locations = Len(results),
                                 !.successful = @ + 1]
             ELSE [before EXCEPT !.total_locations = Len(results),
                                 !.failed = @ + 1]

\* aggregate_results(results)
aggregate_results(results) ==
    [by_location |-> by_location(results), summary |-> summary(results)]

\* ------------------------------------------------- orchestrate_dns_lookup

\* DetermineStatus without the "no results" branch.
DetermineStatus_NoTimeout(n_results, tasks_published) ==
    IF n_results < tasks_published THEN "partial" ELSE "success"

\* "Determine status": timeout, partial or success, from the two counts.
DetermineStatus(n_results, tasks_published) ==
    IF n_results = 0 THEN "timeout"
    ELSE IF n_results < tasks_published THEN "partial"
    ELSE "success"

\* The message that goes with the status; the numbers the f-string formats
\* are kept as args.
StatusMessage(n_results, tasks_published) ==
    IF n_results = 0
    THEN [text |-> "No results received from workers", args |-> <<>>]
    ELSE IF n_results < tasks_published
    THEN [text |-> "Received {}/{} results",
          args |-> <<n_results, tasks_published>>]
    ELSE [text |-> "Successfully processed {} location lookups",
          args |-> <<n_results>>]

\* return DnsOrchestrateResponse(request_id, domain, status, results, message)
DnsOrchestrateResponse(request_id, results, tasks_published) ==
    [kind |-> "DnsOrchestrateResponse",
     request_id |-> request_id,
     status |-> DetermineStatus(Len(results), tasks_published),
     results |-> aggregate_results(results),
     message |-> StatusMessage(Len(results), tasks_published)]

\* raise HTTPException(status_code=500, detail=...)
HTTPException(cause) ==
    [kind |-> "HTTPException", status_code |-> HTTP_ERROR, cause |-> cause]

NoResponse == [kind |-> "none"]

\* def wait_for_results(self, trace_id, expected_count, timeout_seconds=30)
wait_for_results_params == {"trace_id", "expected_count", "timeout_seconds"}
\* the parameters without a default
wait_for_results_required == {"trace_id", "expected_count"}
\* redis_service.wait_for_results(request_id=..., expected_count=...,
\*                                timeout_seconds=30)
route_call_keywords == {"request_id", "expected_count", "timeout_seconds"}

\* Python binds a keyword call when every keyword names a parameter and every
\* parameter without a default is given; otherwise the call raises TypeError
\* before the function body runs.
Binds(keywords, params, required) ==
    keywords \subseteq params /\ required \subseteq keywords

\* A frame of the route that has not been called.
IdleRoute ==
    [pc |-> "idle", request_id |-> "", locations |-> <<>>, i |-> 1,
     tasks_published |-> 0, response |-> NoResponse,
     \* bookkeeping, read by the properties only: whether an XADD failed, and
     \* how long dns:results was when the request came in
     xadd_failed |-> FALSE, results_before |-> 0]

\* POST /dns/orchestrate with a request body.
Request(r, request_id, locations) ==
    /\ route[r].pc = "idle"
    /\ route' = [route EXCEPT ![r] =
                   [IdleRoute EXCEPT !.pc = "publish",
                                     !.request_id = request_id,
                                     !.locations = locations,
                                     !.results_before = Len(results_stream)]]
    /\ UNCHANGED <<now, tasks_stream, results_stream, groups, wfr, agg>>

\* PublishTask with the error of the XADD logged and the loop carried on.
PublishTask_Continue(r) ==
    LET q == route[r]
        location == q.locations[q.i]
        task == [request_id |-> q.request_id,
                 task_id |-> <<q.request_id, location>>,
                 location |-> location]
    IN  /\ q.pc = "publish"
        /\ q.i <= Len(q.locations)
        /\ \/ /\ tasks_stream' = Append(tasks_stream, task)
              /\ route' = [route EXCEPT ![r] =
                             [q EXCEPT !.i = @ + 1,
                                       !.tasks_published = @ + 1]]
           \/ /\ route' = [route EXCEPT ![r] =
                             [q EXCEPT !.i = @ + 1, !.xadd_failed = TRUE]]
              /\ UNCHANGED tasks_stream
        /\ UNCHANGED <<now, results_stream, groups, wfr, agg>>

\* PublishTask with the whole request published as a single task: the loop
\* is left after the first XADD.
PublishTask_Once(r) ==
    LET q == route[r]
        location == q.locations[q.i]
        task == [request_id |-> q.request_id,
                 task_id |-> <<q.request_id, location>>,
                 location |-> location]
    IN  /\ q.pc = "publish"
        /\ q.i <= Len(q.locations)
        /\ \/ /\ tasks_stream' = Append(tasks_stream, task)
              /\ route' = [route EXCEPT ![r] =
                             [q EXCEPT !.i = Len(q.locations) + 1,
                                       !.tasks_published = @ + 1]]
           \/ /\ route' = [route EXCEPT ![r] =
                             [q EXCEPT !.pc = "done", !.xadd_failed = TRUE,
                                       !.response = HTTPException("xadd")]]
              /\ UNCHANGED tasks_stream
        /\ UNCHANGED <<now, results_stream, groups, wfr, agg>>

\* One round of "for location in request.locations": build the task and
\* await publish_dns_task, which XADDs it to dns:tasks and re-raises any
\* error; the route's except turns the error into HTTP 500.
\* (domain, record_types, timestamp and trace_context ride along unread.)
PublishTask(r) ==
    LET q == route[r]
        location == q.locations[q.i]
        task == [request_id |-> q.request_id,
                 task_id |-> <<q.request_id, location>>,
                 location |-> location]
    IN  /\ q.pc = "publish"
        /\ q.i <= Len(q.locations)
        /\ \/ /\ tasks_stream' = Append(tasks_stream, task)
              /\ route' = [route EXCEPT ![r] =
                             [q EXCEPT !.i = @ + 1,
                                       !.tasks_published = @ + 1]]
           \/ /\ route' = [route EXCEPT ![r] =
                             [q EXCEPT !.pc = "done", !.xadd_failed = TRUE,
                                       !.response = HTTPException("xadd")]]
              /\ UNCHANGED tasks_stream
        /\ UNCHANGED <<now, results_stream, groups, wfr, agg>>

\* After the loop the route calls wait_for_results with the keyword
\* request_id, which is no parameter of it: the call raises TypeError, the
\* function body never runs, and the route's except answers HTTP 500.
WaitForResults(r) ==
    LET q == route[r]
    IN  /\ q.pc = "publish"
        /\ q.i > Len(q.locations)
        /\ ~Binds(route_call_keywords, wait_for_results_params,
                  wait_for_results_required)
        /\ route' = [route EXCEPT ![r] =
                       [q EXCEPT !.pc = "done",
                                 !.response = HTTPException("TypeError")]]
        /\ UNCHANGED <<now, tasks_stream, results_stream, groups, wfr, agg>>

\* ------------------------------------------------ the aggregation step

\* Lines "Aggregate results" to the return of the response, applied to the
\* list `results` that wait_for_results handed back for tasks_published tasks.
Aggregate ==
    /\ agg.pc = "collected"
    /\ agg' = [agg EXCEPT !.pc = "responded",
                          !.response = DnsOrchestrateResponse(
                              agg.request_id, agg.results, agg.tasks_published)]
    /\ UNCHANGED <<now, tasks_stream, results_stream, groups, wfr, route>>

\* ---------------------------------------------------------- specifications

\* Lists of at most n elements of S.
SeqsUpTo(S, n) == UNION {[1..k -> S] : k \in 0..n}

\* Result dicts as the workers write them; location, status and error may
\* each be missing.
ResultDicts ==
    [location : Locations, status : {"success", "failure"}]
    \cup [location : Locations, status : {"success", "failure"},
          error : {"SERVFAIL"}]
    \cup [status : {"success", "failure"}]
    \cup [location : Locations]

NoAggregation ==
    [pc |-> "none", request_id |-> "", results |-> <<>>,
     tasks_published |-> 0, response |-> NoResponse]

Init ==
    /\ now = 0
    /\ tasks_stream = <<>>
    /\ results_stream = <<>>
    /\ groups = [g \in GroupNames |-> NoGroup]
    /\ wfr = [c \in Collectors |-> IdleFrame]
    /\ route = [r \in Routes |-> IdleRoute]
    /\ agg = NoAggregation

\* The steps of one invocation of wait_for_results.
Step(c) ==
    \/ CreateGroup(c)
    \/ LoopCheck(c)
    \/ ReadGroup(c)
    \/ ProcessMessage(c)
    \/ AckMessage(c)
    \/ DestroyGroup(c)
    \/ Cancel(c)

\* One call of wait_for_results at a time, against workers that append
\* whatever they like whenever they like.
Next ==
    \/ Tick
    \/ \E e \in ResultEntries : WorkerAppend(e, MaxStream)
    \/ \E t \in TraceIds, n \in 0..MaxExpected, s \in 1..MaxTimeout :
          Call("c1", t, n, s)
    \/ Step("c1")

Spec == Init /\ [][Next]_vars

\* The event loop resumes a coroutine whose awaited command has completed,
\* the server answers the commands it is sent, and time passes.
Progress(c) ==
    \/ CreateGroup(c)
    \/ LoopCheck(c)
    \/ ReadGroup(c)
    \/ ProcessMessage(c)
    \/ AckMessage(c)
    \/ DestroyGroup(c)

FairSpec == Spec /\ WF_vars(Tick) /\ WF_vars(Progress("c1"))

\* Two calls of wait_for_results in flight at once ("c2" names the one that
\* is entered second), each waiting for MaxExpected results for one second.
NextPair ==
    \/ Tick
    \/ \E e \in ResultEntries : WorkerAppend(e, MaxPairStream)
    \/ \E c \in Collectors, t \in TraceIds :
          /\ c = "c2" => wfr["c1"].pc # "idle"
          /\ Call(c, t, MaxExpected, 1)
    \/ \E c \in Collectors : Step(c)

SpecPair == Init /\ [][NextPair]_vars

\* The route against the two streams.
NextRoute ==
    \/ \E e \in ResultEntries : WorkerAppend(e, MaxStream)
    \/ \E r \in Routes, t \in TraceIds,
          l \in SeqsUpTo(Locations, MaxLocations) : Request(r, t, l)
    \/ \E r \in Routes : PublishTask(r)
    \/ \E r \in Routes : WaitForResults(r)

SpecRoute == Init /\ [][NextRoute]_vars

\* The aggregation step on every list of results the collection can hand
\* back: with no task published the loop is not entered and the list is empty.
InitAgg ==
    /\ now = 0
    /\ tasks_stream = <<>>
    /\ results_stream = <<>>
    /\ groups = [g \in GroupNames |-> NoGroup]
    /\ wfr = [c \in Collectors |-> IdleFrame]
    /\ route = [r \in Routes |-> IdleRoute]
    /\ \E t \in TraceIds, n \in 0..MaxPublished,
          l \in SeqsUpTo(ResultDicts, MaxResults) :
          /\ n = 0 => l = <<>>
          /\ agg = [pc |-> "collected", request_id |-> t, results |-> l,
                    tasks_published |-> n, response |-> NoResponse]

NextAgg == Aggregate

SpecAgg == InitAgg /\ [][NextAgg]_vars

\* ================================================================ properties

\* The positions of dns:results that hold a parsed result tagged trace_id.
Tagged(trace_id) ==
    {i \in 1..Len(results_stream) :
        results_stream[i].ok /\ results_stream[i].trace_id = trace_id}

\* The tasks of dns:tasks that carry request_id, in log order.
RECURSIVE TasksOf(_, _)
TasksOf(stream, request_id) ==
    IF Len(stream) = 0 THEN <<>>
    ELSE LET before == TasksOf(SubSeq(stream, 1, Len(stream) - 1), request_id)
             last == stream[Len(stream)]
         IN  IF last.request_id = request_id THEN Append(before, last)
             ELSE before

\* The response is one of the three structured outcomes.
IsOutcome(response) ==
    /\ response.kind = "DnsOrchestrateResponse"
    /\ response.status \in {"success", "partial", "timeout"}

\* C1 (as claimed): for expected_count N >= 1, when N results tagged with the
\* request's id have been appended to dns:results after the request came in
\* and before it ended, and no log operation failed, the request answers with
\* status success and a received count of N.
C1_SuccessWhenAllArrive ==
    \A r \in Routes :
        LET q == route[r]
            N == Len(q.locations)
            mine == {i \in Tagged(q.request_id) : i > q.results_before}
        IN  (q.pc = "done" /\ ~q.xadd_failed /\ N >= 1 /\ Cardinality(mine) = N)
            => /\ q.response.kind = "DnsOrchestrateResponse"
               /\ q.response.status = "success"
               /\ q.response.results.summary.total_locations = N

\* C6 (as claimed): a request during which no log operation failed ends with
\* a structured outcome whose status is success, partial or timeout, never
\* with an error response.
C6_NoErrorWhenLogsReachable ==
    \A r \in Routes :
        (route[r].pc = "done" /\ ~route[r].xadd_failed)
        => IsOutcome(route[r].response)

\* C10: once the XADD of a task has failed, the request is over with an error
\* response: the failed append is not repeated and no later task is appended
\* (dns:tasks holds exactly the tasks published before the failure), no
\* consumer group exists, no collection was started, and the response is none
\* of the three outcomes.
C10_PublishFailureAborts ==
    \A r \in Routes :
        LET q == route[r]
        IN  q.xadd_failed
            => /\ q.pc = "done"
               /\ q.response.kind = "HTTPException"
               /\ q.response.status_code = HTTP_ERROR
               /\ ~IsOutcome(q.response)
               /\ q.tasks_published = q.i - 1
               /\ TasksOf(tasks_stream, q.request_id)
                    = [k \in 1..(q.i - 1) |->
                         [request_id |-> q.request_id,
                          task_id |-> <<q.request_id, q.locations[k]>>,
                          location |-> q.locations[k]]]
               /\ \A g \in GroupNames : ~groups[g].exists
               /\ \A c \in Collectors : wfr[c].pc = "idle"

\* C10 witness: the second XADD of a request failed after the first went
\* through, and the request has been answered.
C10_Witness ==
    \E r \in Routes :
        /\ route[r].xadd_failed
        /\ route[r].tasks_published = 1
        /\ Len(route[r].locations) = 2
        /\ route[r].pc = "done"

\* C3 (as claimed): a call that opened its window and is over has issued the
\* deletion of its consumer group exactly once, however it ended.
C3_ClosedExactlyOnce ==
    \A c \in Collectors :
        (wfr[c].pc \in Ended /\ wfr[c].opened) => wfr[c].destroy_calls = 1

\* The elements of a list.
Range(list) == {list[i] : i \in 1..Len(list)}

\* The call is running: entered and not over.
Running(c) == wfr[c].pc \notin ({"idle"} \cup Ended)

\* The ids handed to call c whose for-body has run to its end.
Handled(c) == Range(wfr[c].delivered) \ Range(wfr[c].messages)

\* The ids handed to call c that hold a parsed result of another trace.
Foreign(c) ==
    {id \in Range(wfr[c].delivered) :
        results_stream[id].ok /\ results_stream[id].trace_id # wfr[c].trace_id}

\* Every result a call holds carries the call's own trace_id.
OnlyOwnResults ==
    \A c \in Collectors :
        \A k \in 1..Len(wfr[c].results) :
            wfr[c].results[k].trace_id = wfr[c].trace_id

\* What call d reads through: its consumer group (cursor and pending list)
\* and the stream itself.
View(d) == <<groups[consumer_group(wfr[d].trace_id)], results_stream>>

\* C2: with two calls of distinct trace_id in flight at once, each call's
\* results hold only entries tagged with its own id, and no step of one call
\* (create, read, ack, destroy, cancel) changes the group the other reads
\* through or the stream: it takes nothing out of the other's view.
C2_Isolation ==
    /\ []OnlyOwnResults
    /\ [][\A c, d \in Collectors :
            (/\ c # d
             /\ Running(c) /\ Running(d)
             /\ wfr[c].trace_id # wfr[d].trace_id
             /\ wfr'[c] # wfr[c])
            => View(d)' = View(d)]_vars

\* C2 witness: two calls with distinct ids were each handed both entries of
\* the stream, one tagged for each, and each kept exactly its own.
C2_Witness ==
    /\ wfr["c1"].trace_id # wfr["c2"].trace_id
    /\ \A c \in Collectors :
          /\ Running(c)
          /\ wfr[c].delivered = <<1, 2>>
          /\ Len(wfr[c].results) = 1
    /\ results_stream[1].ok /\ results_stream[2].ok
    /\ results_stream[1].trace_id # results_stream[2].trace_id

\* C4: an entry of another trace that a call was handed is never among the
\* call's results; once its for-body is over it is acknowledged (not pending in
\* the call's group) unless the xack itself raised; and no id is handed to the
\* same call twice.
C4_ForeignSkippedAndAcked ==
    \A c \in Collectors :
        LET f == wfr[c]
            g == consumer_group(f.trace_id)
        IN  /\ \A id \in Foreign(c) :
                  /\ id \notin Range(f.result_ids)
                  /\ (id \in Handled(c) /\ id \notin f.ack_failed)
                       => id \notin groups[g].pel
            /\ \A i, j \in 1..Len(f.delivered) :
                  i # j => f.delivered[i] # f.delivered[j]

\* C4 witness: a call was handed an entry of another trace and, after it, an
\* entry of its own; the first is acknowledged and not kept, the second kept.
C4_Witness ==
    \E c \in Collectors :
        /\ Running(c)
        /\ 1 \in Foreign(c) /\ 1 \in Handled(c)
        /\ 1 \notin groups[consumer_group(wfr[c].trace_id)].pel
        /\ wfr[c].delivered = <<1, 2>>
        /\ wfr[c].result_ids = <<2>>

\* The step in which call c returns its list (by return or through the outer
\* except), after the loop was entered.
Returns(c) ==
    /\ wfr[c].pc \in {"loop", "read", "proc", "ack", "destroy"}
    /\ wfr'[c].pc = "returned"

\* C5: wait_for_results returns no later than timeout_seconds plus one block
\* interval after its loop started, whatever the workers append; and every
\* call that was entered ends.
C5_ReturnsByDeadlinePlusPoll ==
    /\ [][\A c \in Collectors :
            Returns(c) =>
              now <= wfr[c].start_time + wfr[c].timeout_seconds + BLOCK_SECONDS]_vars
    /\ \A c \in Collectors : Running(c) ~> wfr[c].pc \in Ended

\* C5 witness: a call that got none of the results it waits for is about to
\* return exactly one block interval after its timeout.
C5_Witness ==
    \E c \in Collectors :
        /\ wfr[c].pc = "destroy"
        /\ wfr[c].results = <<>>
        /\ wfr[c].expected_count > 0
        /\ now = wfr[c].start_time + wfr[c].timeout_seconds + BLOCK_SECONDS

\* The origin and the status the aggregation reads off a result.
Origin(result) == Get(result, "location", "unknown")
StatusOf(result) == Get(result, "status", "unknown")

\* The positions of the aggregated list whose status is the success marker.
Succeeded(results) == {i \in 1..Len(results) : StatusOf(results[i]) = "success"}

\* C7: when no result was collected (whether or not any task was published),
\* the outcome has status timeout, an empty by_location map and
\* successful = failed = 0.
C7_NothingCollectedIsTimeout ==
    (agg.pc = "responded" /\ Len(agg.results) = 0)
    => /\ agg.response.status = "timeout"
       /\ DOMAIN agg.response.results.by_location = {}
       /\ agg.response.results.summary.successful = 0
       /\ agg.response.results.summary.failed = 0

\* C7 witness: two tasks were published, nothing was collected, and the
\* response has been built.
C7_Witness ==
    /\ agg.pc = "responded"
    /\ agg.tasks_published = 2
    /\ agg.results = <<>>

C9_SuccessWheneverCountReached ==
    (agg.pc = "responded" /\ Len(agg.results) >= agg.tasks_published)
    => agg.response.status = "success"

\* C9 (amended): the status is decided by the two counts alone: with at least
\* one result and at least tasks_published of them it is success, whatever
\* status or error the results carry (with none it is timeout, with fewer than
\* published partial); successful counts exactly the results whose status
\* equals "success", failed all the others, so the two add up to the number of
\* results.
C9_StatusByCountOnly ==
    LET rs == agg.results
        k == Len(rs)
        N == agg.tasks_published
        sm == agg.response.results.summary
    IN  agg.pc = "responded"
        => /\ (k >= 1 /\ k >= N) => agg.response.status = "success"
           /\ (k >= 1 /\ k < N) => agg.response.status = "partial"
           /\ k = 0 => agg.response.status = "timeout"
           /\ sm.successful = Cardinality(Succeeded(rs))
           /\ sm.failed = k - Cardinality(Succeeded(rs))
           /\ sm.successful + sm.failed = k
           /\ sm.total_locations = k

\* C9 witness: two tasks published and two results collected, one of them
\* with a failure status and a populated error; the response reports success
\* with one failed.
C9_Witness ==
    /\ agg.pc = "responded"
    /\ agg.tasks_published = 2
    /\ Len(agg.results) = 2
    /\ \E i \in 1..2 :
          /\ StatusOf(agg.results[i]) = "failure"
          /\ Get(agg.results[i], "error", "None") # "None"
    /\ agg.response.status = "success"
    /\ agg.response.results.summary.failed = 1

\* C11 (as claimed): a call whose xgroup_create failed with an error other
\* than BUSYGROUP, or whose xreadgroup failed, does not hand a list back to the
\* route: the failure leaves wait_for_results as an exception.
C11_LogFailureRaised ==
    \A c \in Collectors :
        wfr[c].exit = "except" => wfr[c].pc # "returned"

\* C12 (as claimed): a request whose publishing went through has appended
\* exactly one task to dns:tasks, however many locations it names.
C12_OneTaskPerRequest ==
    \A r \in Routes :
        (route[r].pc = "done" /\ ~route[r].xadd_failed)
        => Len(TasksOf(tasks_stream, route[r].request_id)) = 1

\* C12 (amended): a request appends one task per location it names, in the
\* order of the list, each carrying the request_id and its location; when no
\* XADD failed the request has appended as many tasks as it names locations.
C12_OneTaskPerLocation ==
    \A r \in Routes :
        LET q == route[r]
            ts == TasksOf(tasks_stream, q.request_id)
        IN  q.pc # "idle"
            => /\ Len(ts) = q.tasks_published
               /\ Len(ts) <= Len(q.locations)
               /\ \A k \in 1..Len(ts) :
                     /\ ts[k].location = q.locations[k]
                     /\ ts[k].task_id = <<q.request_id, q.locations[k]>>
               /\ (q.pc = "done" /\ ~q.xadd_failed)
                    => Len(ts) = Len(q.locations)

\* C12 witness: a request naming two locations got through its publishing and
\* left two tasks on dns:tasks.
C12_Witness ==
    \E r \in Routes :
        /\ route[r].pc = "done" /\ ~route[r].xadd_failed
        /\ Len(route[r].locations) = 2
        /\ Len(TasksOf(tasks_stream, route[r].request_id)) = 2

\* C13 (as claimed): the list a call accumulates, and so the list it returns,
\* never holds more than expected_count results.
C13_AtMostExpected ==
    \A c \in Collectors :
        wfr[c].pc # "idle" => Len(wfr[c].results) <= wfr[c].expected_count

\* C14 (as claimed): every entry a call is handed by its reads was appended
\* to dns:results after the call's xgroup_create returned; no entry that was
\* on the stream at that moment is delivered to the call.
C14_OnlyEntriesAfterOpen ==
    \A c \in Collectors :
        (Running(c) /\ wfr[c].opened)
        => \A id \in Range(wfr[c].delivered) : id > wfr[c].opened_at

\* C15: while a group of the call's name exists, xgroup_create can complete
\* without ending the call (BUSYGROUP is dropped): the call goes on to its
\* loop with nothing collected and the existing group left exactly as it was.
\* A create step that does end the call is the failure path (another error),
\* and leaves through the except clause.
C15_OpenIdempotent ==
    /\ [](\A c \in Collectors :
            (/\ wfr[c].pc = "create"
             /\ groups[consumer_group(wfr[c].trace_id)].exists)
            => ENABLED (/\ CreateGroup(c)
                        /\ wfr'[c].pc = "loop"
                        /\ groups' = groups))
    /\ [][\A c \in Collectors :
            (wfr[c].pc = "create" /\ wfr'[c].pc \notin {"create", "cancelled"})
            => \/ /\ wfr'[c].pc = "loop"
                  /\ wfr'[c].opened
                  /\ wfr'[c].results = <<>>
                  /\ groups[consumer_group(wfr[c].trace_id)].exists
                       => groups' = groups
               \/ /\ wfr'[c].pc = "returned"
                  /\ wfr'[c].exit = "except"
                  /\ groups' = groups]_vars

\* C15 witness: two calls with one trace_id are running; the second opened on
\* the group the first had created before an entry was appended, and has
\* collected that entry through it.
C15_Witness ==
    /\ Running("c1") /\ Running("c2")
    /\ wfr["c1"].trace_id = wfr["c2"].trace_id
    /\ wfr["c1"].opened /\ wfr["c1"].opened_at = 0
    /\ wfr["c2"].opened /\ wfr["c2"].opened_at = 1
    /\ wfr["c2"].result_ids = <<1>>

\* C16: the step that ends a call after xgroup_destroy is the normal return,
\* with the results accumulated before it, whether the deletion went through
\* or failed: a call that returned after issuing the deletion did not leave
\* through an except clause, also when its group is still there.
C16_DestroyFailureSwallowed ==
    /\ [][\A c \in Collectors :
            (wfr[c].pc = "destroy" /\ wfr'[c].pc \notin {"destroy", "cancelled"})
            => /\ wfr'[c].pc = "returned"
               /\ wfr'[c].exit = "return"
               /\ wfr'[c].results = wfr[c].results]_vars
    /\ [](\A c \in Collectors :
            (wfr[c].pc = "returned" /\ wfr[c].destroy_calls = 1)
            => wfr[c].exit = "return")

\* C16 witness: a call returned both results it had collected although the
\* deletion of its group failed (the group is still on the stream).
C16_Witness ==
    /\ wfr["c1"].pc = "returned" /\ wfr["c1"].exit = "return"
    /\ wfr["c1"].destroy_calls = 1
    /\ groups[consumer_group(wfr["c1"].trace_id)].exists
    /\ Len(wfr["c1"].results) = 2

\* C17: the for-body of an entry that does not parse leaves the results as
\* they were and goes on with the next entry of the batch or, after the last,
\* with the while condition; no result of a call comes from an entry that
\* does not parse, so such an entry is never counted toward expected_count.
C17_ParseFailureSkipped ==
    /\ [][\A c \in Collectors :
            (/\ wfr[c].pc = "proc"
             /\ ~results_stream[Head(wfr[c].messages)].ok
             /\ wfr'[c] # wfr[c]
             /\ wfr'[c].pc # "cancelled")
            => /\ wfr'[c].results = wfr[c].results
               /\ wfr'[c].messages = Tail(wfr[c].messages)
               /\ wfr'[c].pc = IF Len(wfr[c].messages) > 1 THEN "proc"
                               ELSE "loop"]_vars
    /\ [](\A c \in Collectors :
            /\ Len(wfr[c].results) = Len(wfr[c].result_ids)
            /\ \A id \in Range(wfr[c].result_ids) : results_stream[id].ok)

\* C17 witness: a call was handed an entry that does not parse and after it
\* two results of its own; it holds the two results and not the broken entry
\* (which stays pending in its group, never acknowledged).
C17_Witness ==
    /\ Running("c1")
    /\ Len(results_stream) = 3
    /\ ~results_stream[1].ok
    /\ wfr["c1"].delivered = <<1, 2, 3>>
    /\ wfr["c1"].result_ids = <<2, 3>>
    /\ wfr["c1"].opened_at = 0
    /\ groups[consumer_group(wfr["c1"].trace_id)].pel = {1}

\* C18: the results of a call are entries of dns:results in increasing
\* stream position, each the entry at its position, and every parsed entry
\* tagged with the call's trace_id whose for-body is over is among them, also
\* when an earlier result carries the same location.
C18_LogOrderDuplicatesKept ==
    \A c \in Collectors :
        LET f == wfr[c]
        IN  /\ Len(f.results) = Len(f.result_ids)
            /\ \A k \in 1..Len(f.result_ids) :
                  /\ f.result_ids[k] \in 1..Len(results_stream)
                  /\ f.results[k] = results_stream[f.result_ids[k]]
            /\ \A i, j \in 1..Len(f.result_ids) :
                  i < j => f.result_ids[i] < f.result_ids[j]
            /\ \A id \in Handled(c) :
                  (results_stream[id].ok
                   /\ results_stream[id].trace_id = f.trace_id)
                  => id \in Range(f.result_ids)

\* C18 witness: a call was handed a result of its own, one of another trace
\* and a second of its own with the same location as the first; it holds the
\* first and the third, in that order.
C18_Witness ==
    /\ wfr["c1"].pc = "returned"
    /\ wfr["c1"].delivered = <<1, 2, 3>>
    /\ wfr["c1"].result_ids = <<1, 3>>
    /\ Len(wfr["c1"].results) = 2
    /\ wfr["c1"].results[1].location = wfr["c1"].results[2].location
    /\ 2 \in Foreign("c1")

\* The call is waiting in its blocking read before its deadline: every entry
\* on dns:results was appended before the deadline, and whatever its group
\* had to hand out has been handed out and processed.
WaitingBeforeDeadline(c) ==
    /\ Blocked(c)
    /\ now < wfr[c].start_time + wfr[c].timeout_seconds

\* C19 (as claimed): every result tagged with the call's trace_id that was
\* appended after the call was entered (its tasks are published before that)
\* and before its deadline has been collected, those appended before the
\* call's xgroup_create returned included.
C19_NothingLostAfterPublish ==
    \A c \in Collectors :
        WaitingBeforeDeadline(c)
        => \A id \in Tagged(wfr[c].trace_id) :
              id > wfr[c].called_at => id \in Range(wfr[c].result_ids)

\* C20 (as claimed): two running calls with one trace_id do not disturb each
\* other.  While one of them is still reading (it opened and has not reached
\* its own cleanup) its group exists, whatever the other has done; and once
\* both wait in their blocking read with nothing left to hand out, every
\* result tagged with their trace_id that was handed to one of them and was
\* appended after the other had opened has been handed to the other too.
C20_SameIdDoNotDisturb ==
    \A c, d \in Collectors :
        (c # d /\ wfr[c].trace_id = wfr[d].trace_id)
        => /\ (/\ wfr[d].pc \in {"loop", "read", "proc", "ack"}
               /\ wfr[c].pc # "idle")
              => groups[consumer_group(wfr[d].trace_id)].exists
           /\ (Blocked(c) /\ Blocked(d))
              => \A id \in Range(wfr[c].delivered) \cap Tagged(wfr[c].trace_id) :
                    id > wfr[d].opened_at => id \in Range(wfr[d].delivered)

====
